---- MODULE Spec2Model ----
(***************************************************************************)
(* A model of oauth2client/clientsecrets.py: the schema table, the         *)
(* validator _validate_clientsecrets, the loaders load / loads /           *)
(* _loadfile and the cache-backed loader loadfile.                         *)
(*                                                                         *)
(* JSON values are modelled by kind.  A text value is a sequence of        *)
(* one-character strings, so that startswith('[[') is computed on the      *)
(* characters.  Python exceptions are results with tag "raise" that carry  *)
(* the exception class and, for InvalidClientSecretsError, the message     *)
(* format and its arguments.                                               *)
(***************************************************************************)
EXTENDS Integers, Sequences, FiniteSets, TLC

VARIABLES obj, result, fs, streams, cache, last

vars == <<obj, result, fs, streams, cache, last>>

loaderVars == <<fs, streams, cache, last>>

-----------------------------------------------------------------------------
(* The schema table.                                                       *)

TYPE_WEB == "web"

TYPE_INSTALLED == "installed"

\* A faulty schema table (it forgets that token_uri is required), against
\* which C4 is tested.
VALID_CLIENT_NoTokenUri ==
    [t \in {TYPE_WEB, TYPE_INSTALLED} |->
        [required |-> <<"client_id", "client_secret", "redirect_uris", "auth_uri">>,
         string |-> <<"client_id", "client_secret">>]]

VALID_CLIENT ==
    (TYPE_WEB :> [required |-> <<"client_id", "client_secret", "redirect_uris",
                                "auth_uri", "token_uri">>,
                  string |-> <<"client_id", "client_secret">>])
    @@
    (TYPE_INSTALLED :> [required |-> <<"client_id", "client_secret", "redirect_uris",
                                      "auth_uri", "token_uri">>,
                        string |-> <<"client_id", "client_secret">>])

-----------------------------------------------------------------------------
(* JSON values.                                                            *)

EmptyMap == [x \in {} |-> x]

\* A text value (unicode string) and a value that is not text (a number).
StrVal(chars) == [t |-> "str", s |-> chars]

NumVal == [t |-> "num", s |-> <<>>]

\* The value of a top-level key: a JSON object (f: field -> value), a JSON
\* array or string (elems: the field names `in` finds in it), null or a number.
ObjInfo(f) == [kind |-> "object", f |-> f, elems |-> {}]

SeqInfo(elems) == [kind |-> "array", f |-> EmptyMap, elems |-> elems]

NullInfo == [kind |-> "null", f |-> EmptyMap, elems |-> {}]

NumInfo == [kind |-> "number", f |-> EmptyMap, elems |-> {}]

NoInfo == [kind |-> "none", f |-> EmptyMap, elems |-> {}]

\* A parsed document: a JSON object (m: key -> value), an array of len
\* elements, a number, or null (Python None).
ObjDoc(m) == [kind |-> "object", len |-> Cardinality(DOMAIN m), m |-> m]

SeqDoc(n) == [kind |-> "array", len |-> n, m |-> EmptyMap]

NumDoc == [kind |-> "number", len |-> 0, m |-> EmptyMap]

NoneDoc == [kind |-> "null", len |-> 0, m |-> EmptyMap]

-----------------------------------------------------------------------------
(* Results of a call: a returned (client_type, client_info) pair or a      *)
(* raised exception.                                                       *)

Return(client_type, client_info) ==
    [tag |-> "return", exc |-> "", msg |-> "", args |-> <<>>,
     ctype |-> client_type, info |-> client_info]

Raise(exc, msg, args) ==
    [tag |-> "raise", exc |-> exc, msg |-> msg, args |-> args,
     ctype |-> "", info |-> NoInfo]

InvalidClientSecretsError(msg, args) == Raise("InvalidClientSecretsError", msg, args)

NotRun == [tag |-> "none", exc |-> "", msg |-> "", args |-> <<>>,
           ctype |-> "", info |-> NoInfo]

\* A faulty startswith (it compares the first character only), against which
\* C1 is tested.
startswith_FirstChar(chars, prefix) ==
    /\ Len(chars) >= 1
    /\ chars[1] = prefix[1]

\* str.startswith on a text value.
startswith(chars, prefix) ==
    /\ Len(chars) >= Len(prefix)
    /\ SubSeq(chars, 1, Len(prefix)) = prefix

PLACEHOLDER == <<"[", "[">>

\* `prop_name in client_info`: key membership of a dict, element membership
\* of a list (substring of a string).
Contains(client_info, prop_name) ==
    IF client_info.kind = "object" THEN prop_name \in DOMAIN client_info.f
    ELSE prop_name \in client_info.elems

\* The loop over VALID_CLIENT[client_type]['required'] from index i on.
RECURSIVE CheckRequired(_, _, _)
CheckRequired(client_type, client_info, i) ==
    IF i > Len(VALID_CLIENT[client_type].required) THEN NotRun
    ELSE LET prop_name == VALID_CLIENT[client_type].required[i]
         IN  IF client_info.kind \in {"null", "number"}
             THEN Raise("TypeError", "argument is not iterable", <<>>)
             ELSE IF ~Contains(client_info, prop_name)
             THEN InvalidClientSecretsError(
                      "Missing property \"%s\" in a client type of \"%s\".",
                      <<prop_name, client_type>>)
             ELSE CheckRequired(client_type, client_info, i + 1)

\* The loop over VALID_CLIENT[client_type]['string'] from index i on.
RECURSIVE CheckString(_, _, _)
CheckString(client_type, client_info, i) ==
    IF i > Len(VALID_CLIENT[client_type].string) THEN NotRun
    ELSE LET prop_name == VALID_CLIENT[client_type].string[i]
         IN  IF client_info.kind # "object"
             THEN Raise("TypeError", "indices must be integers", <<>>)
             ELSE IF client_info.f[prop_name].t # "str"
             THEN Raise("AttributeError", "no attribute startswith", <<>>)
             ELSE IF startswith(client_info.f[prop_name].s, PLACEHOLDER)
             THEN InvalidClientSecretsError("Property \"%s\" is not configured.",
                                            <<prop_name>>)
             ELSE CheckString(client_type, client_info, i + 1)

_validate_clientsecrets(o) ==
    IF o.kind = "null" THEN InvalidClientSecretsError("Invalid file format.", <<>>)
    ELSE IF o.kind = "number" THEN Raise("TypeError", "object has no len", <<>>)
    ELSE IF o.len # 1 THEN InvalidClientSecretsError("Invalid file format.", <<>>)
    ELSE IF o.kind # "object" THEN Raise("AttributeError", "no attribute keys", <<>>)
    ELSE LET client_type == CHOOSE k \in DOMAIN o.m : TRUE
         IN  IF client_type \notin DOMAIN VALID_CLIENT
             THEN InvalidClientSecretsError("Unknown client type: %s.", <<client_type>>)
             ELSE LET client_info == o.m[client_type]
                      req == CheckRequired(client_type, client_info, 1)
                      str == CheckString(client_type, client_info, 1)
                  IN  IF req.tag = "raise" THEN req
                      ELSE IF str.tag = "raise" THEN str
                      ELSE Return(client_type, client_info)

-----------------------------------------------------------------------------
(* The documents the validator is applied to.                              *)

\* The longest top-level JSON array among the inputs.
MaxLen == 2

TopKeys == {TYPE_WEB, TYPE_INSTALLED, "service"}

StringFields == {"client_id", "client_secret"}

OtherFields == {"redirect_uris", "auth_uri", "token_uri"}

ExtraFields == {"project_id"}

Plain == StrVal(<<"a", "b">>)

Template == StrVal(<<"[", "[", "a">>)

OneBracket == StrVal(<<"[", "a">>)

FieldValues(field) ==
    IF field \in StringFields THEN {Plain, Template, OneBracket, NumVal}
    ELSE IF field \in OtherFields THEN {Plain, Template, NumVal}
    ELSE {Plain}

AllFields == StringFields \cup OtherFields \cup ExtraFields

ObjInfos ==
    { ObjInfo(f) : f \in UNION { { g \in [S -> {Plain, Template, OneBracket, NumVal}] :
                                     \A x \in S : g[x] \in FieldValues(x) } :
                                 S \in SUBSET AllFields } }

SeqInfos == { SeqInfo(E) : E \in SUBSET (StringFields \cup OtherFields) }

Infos == ObjInfos \cup SeqInfos \cup {NullInfo, NumInfo}

GoodInfo == ObjInfo([x \in StringFields \cup OtherFields |-> Plain])

\* The values used under the keys of a document with two keys.
FewInfos == {GoodInfo, NullInfo, ObjInfo(EmptyMap)}

Documents ==
    { ObjDoc(k :> i) : k \in TopKeys, i \in Infos }
    \cup { ObjDoc(m) : m \in UNION { [S -> FewInfos] :
                                     S \in { T \in SUBSET TopKeys : Cardinality(T) # 1 } } }
    \cup { SeqDoc(n) : n \in 0..MaxLen }
    \cup {NumDoc, NoneDoc}

-----------------------------------------------------------------------------
(* Sources, file contents and the cache collaborator.                      *)

Names == {"a.json", "b.json"}

\* The name of the file the caller's io stream was opened on (its .name).
StreamName == "a.json"

\* A text: either the serialisation of a JSON value or text json cannot parse.
Text(doc) == [syntax |-> "json", value |-> doc]

Garbage == [syntax |-> "garbage", value |-> NoneDoc]

NoText == [syntax |-> "none", value |-> NoneDoc]

MissingInfo == ObjInfo([x \in {"client_id"} |-> Plain])

FileTexts ==
    { Text(ObjDoc(TYPE_WEB :> GoodInfo)),
      Text(ObjDoc(TYPE_INSTALLED :> GoodInfo)),
      Text(ObjDoc(TYPE_WEB :> MissingInfo)),
      Garbage }

\* json.load / json.loads: the parsed value, or ValueError.
json_loads(text) ==
    IF text.syntax = "json" THEN [tag |-> "value", value |-> text.value]
    ELSE [tag |-> "raise", value |-> NoneDoc]

\* What cache.get returns: None, or the mapping stored under the key.
CacheNone == [present |-> FALSE, m |-> EmptyMap]

CacheEntry(m) == [present |-> TRUE, m |-> m]

\* Mappings another writer of the cache may leave under a key of the namespace.
ForeignMappings ==
    { EmptyMap,
      TYPE_WEB :> MissingInfo,
      (TYPE_WEB :> GoodInfo) @@ ("service" :> NullInfo) }

\* A source passed as filename_or_io: a path, or the caller's io stream.
Path(n) == [io |-> FALSE, name |-> n]

Stream == [io |-> TRUE, name |-> StreamName]

Sources == { Path(n) : n \in Names } \cup {Stream}

_get_name(filename_or_io) == filename_or_io.name

_SECRET_NAMESPACE == "oauth2client:secrets#ns"

Namespaces == {_SECRET_NAMESPACE, "other"}

CacheKeys == Names \X Namespaces

EmptyCache == [k \in CacheKeys |-> CacheNone]

NoSource == [io |-> FALSE, name |-> ""]

\* The record of one call of a loader: the operation and its source, the
\* cache key and what cache.get returned (when a cache was consulted),
\* whether the source was opened or read, whether the validator ran, whether
\* cache.set was called, the text read, the outcome.
Call(op, src, key, cached, got, touched, ran, set, text, res) ==
    [op |-> op, src |-> src, key |-> key, cached |-> cached, got |-> got,
     touched |-> touched, ran |-> ran, set |-> set, text |-> text, res |-> res]

NoCall ==
    Call("none", NoSource, "", FALSE, CacheNone, FALSE, FALSE, FALSE, NoText, NotRun)

\* Not a call: the cache has been changed by another party since the last call.
CacheChanged ==
    Call("cache", NoSource, "", FALSE, CacheNone, FALSE, FALSE, FALSE, NoText, NotRun)

-----------------------------------------------------------------------------
(* The state after construction.  The module keeps no state of its own     *)
(* (the schema table is never written): fs is the file system, streams the *)
(* caller's io stream ("none", "open", "consumed" once read to its end,    *)
(* "closed"), cache the external cache by key and namespace (a client      *)
(* object, which `not cache` finds true).  obj and result are the argument *)
(* and the outcome of one call of the validator; last records the last     *)
(* call of a loader.                                                       *)

LoaderInit ==
    /\ fs \in [Names -> FileTexts \cup {NoText}]
    /\ streams = "none"
    /\ cache = EmptyCache
    /\ last = NoCall

\* The validator alone: no file, no stream, an empty cache, no loader call.
InitV ==
    /\ obj \in Documents
    /\ result = NotRun
    /\ fs = [n \in Names |-> NoText]
    /\ streams = "none"
    /\ cache = EmptyCache
    /\ last = NoCall

\* One call _validate_clientsecrets(obj).
Validate ==
    /\ result = NotRun
    /\ result' = _validate_clientsecrets(obj)
    /\ UNCHANGED <<obj, loaderVars>>

NextV == Validate

SpecV == InitV /\ [][NextV]_vars

-----------------------------------------------------------------------------
(* The loaders.                                                            *)

\* json.load(fp) on the caller's stream: the text it yields.  A consumed
\* stream yields the empty text, which json cannot parse; reading a closed
\* stream raises ValueError as well.
StreamText == IF streams = "open" THEN fs[StreamName] ELSE Garbage

ValueError == Raise("ValueError", "No JSON object could be decoded", <<>>)

\* json.load / json.loads followed by the validator, as load, loads and
\* _loadfile do.
ParseAndValidate(op, src, text, touched) ==
    IF json_loads(text).tag = "raise"
    THEN Call(op, src, "", FALSE, CacheNone, touched, FALSE, FALSE, text, ValueError)
    ELSE Call(op, src, "", FALSE, CacheNone, touched, TRUE, FALSE, text,
              _validate_clientsecrets(json_loads(text).value))

load(fp) == ParseAndValidate("load", fp, StreamText, TRUE)

loads(s) == ParseAndValidate("loads", NoSource, s, FALSE)

_loadfile(filename_or_io) ==
    IF filename_or_io.io
    THEN ParseAndValidate("_loadfile", filename_or_io, StreamText, TRUE)
    ELSE IF fs[filename_or_io.name] = NoText
    THEN Call("_loadfile", filename_or_io, "", FALSE, CacheNone, TRUE, FALSE, FALSE, NoText,
              InvalidClientSecretsError("File not found: \"%s\"", <<filename_or_io.name>>))
    ELSE ParseAndValidate("_loadfile", filename_or_io, fs[filename_or_io.name], TRUE)

\* obj.iteritems().next(): some entry of the mapping, StopIteration if empty.
FirstItem(m) ==
    IF DOMAIN m = {} THEN {Raise("StopIteration", "", <<>>)}
    ELSE { Return(k, m[k]) : k \in DOMAIN m }

\* The key and namespace loadfile passes to cache.get and cache.set.
CacheKey(filename_or_io) == <<_get_name(filename_or_io), _SECRET_NAMESPACE>>

\* loadfile without a cache (cache=None): _loadfile.
LoadfileNoCache(filename_or_io) ==
    { [call |-> [_loadfile(filename_or_io) EXCEPT !.op = "loadfile"], cache |-> cache] }

\* A faulty miss branch (it never calls cache.set), against which C2 is tested.
LoadfileMiss_NoSet(filename_or_io) ==
    LET key == CacheKey(filename_or_io)
        inner == _loadfile(filename_or_io)
    IN  { [call |-> Call("loadfile", filename_or_io, key[1], TRUE, cache[key],
                         inner.touched, inner.ran, FALSE, inner.text, inner.res),
           cache |-> cache] }

\* A faulty miss branch (it stores an empty mapping when _loadfile raised),
\* against which C10 is tested.
LoadfileMiss_SetsOnFailure(filename_or_io) ==
    LET key == CacheKey(filename_or_io)
        inner == _loadfile(filename_or_io)
        stored == IF inner.res.tag = "return" THEN inner.res.ctype :> inner.res.info
                  ELSE EmptyMap
    IN  { [call |-> Call("loadfile", filename_or_io, key[1], TRUE, cache[key],
                         inner.touched, inner.ran, TRUE, inner.text, inner.res),
           cache |-> [cache EXCEPT ![key] = CacheEntry(stored)]] }

\* loadfile when cache.get returned None: _loadfile, then cache.set of
\* {client_type: client_info} unless _loadfile raised.
LoadfileMiss(filename_or_io) ==
    LET key == CacheKey(filename_or_io)
        inner == _loadfile(filename_or_io)
    IN  IF inner.res.tag = "return"
        THEN LET stored == inner.res.ctype :> inner.res.info
             IN  { [call |-> Call("loadfile", filename_or_io, key[1], TRUE, cache[key],
                                  inner.touched, inner.ran, TRUE, inner.text, r),
                    cache |-> [cache EXCEPT ![key] = CacheEntry(stored)]] :
                   r \in FirstItem(stored) }
        ELSE { [call |-> Call("loadfile", filename_or_io, key[1], TRUE, cache[key],
                              inner.touched, inner.ran, FALSE, inner.text, inner.res),
                cache |-> cache] }

\* A faulty hit branch (it validates the cached mapping again), against which
\* C3 is tested.
LoadfileHit_Validates(filename_or_io) ==
    LET key == CacheKey(filename_or_io)
    IN  { [call |-> Call("loadfile", filename_or_io, key[1], TRUE, cache[key],
                         FALSE, TRUE, FALSE, NoText,
                         _validate_clientsecrets(ObjDoc(cache[key].m))),
           cache |-> cache] }

\* loadfile when cache.get returned a mapping: its first item.
LoadfileHit(filename_or_io) ==
    LET key == CacheKey(filename_or_io)
    IN  { [call |-> Call("loadfile", filename_or_io, key[1], TRUE, cache[key],
                         FALSE, FALSE, FALSE, NoText, r),
           cache |-> cache] : r \in FirstItem(cache[key].m) }

\* `obj is None` for the result of cache.get.
IsNone(got) == ~got.present

\* A faulty loadfile (it never looks at what cache.get returned), against
\* which C7 is tested.
loadfile_AlwaysLoads(filename_or_io, useCache) ==
    IF ~useCache THEN LoadfileNoCache(filename_or_io)
    ELSE LoadfileMiss(filename_or_io)

\* loadfile(filename_or_io, cache): the possible outcomes, each the record of
\* the call together with the cache after it.  useCache is FALSE for
\* cache=None.
loadfile(filename_or_io, useCache) ==
    IF ~useCache THEN LoadfileNoCache(filename_or_io)
    ELSE IF IsNone(cache[CacheKey(filename_or_io)]) THEN LoadfileMiss(filename_or_io)
    ELSE LoadfileHit(filename_or_io)

\* The caller's stream after a call that read it (close = TRUE: fp.close()).
AfterRead(close) ==
    IF close THEN "closed"
    ELSE IF streams = "open" THEN "consumed"
    ELSE streams

\* load(fp) on the caller's stream.
Load ==
    /\ streams # "none"
    /\ last' = load(Stream)
    /\ streams' = AfterRead(FALSE)
    /\ UNCHANGED <<obj, result, fs, cache>>

\* loads(s).
Loads ==
    \E s \in FileTexts :
        /\ last' = loads(s)
        /\ UNCHANGED <<obj, result, fs, streams, cache>>

\* _loadfile(filename_or_io).
LoadfileUncached ==
    \E src \in Sources :
        /\ src.io => streams # "none"
        /\ last' = _loadfile(src)
        /\ streams' = IF src.io THEN AfterRead(TRUE) ELSE streams
        /\ UNCHANGED <<obj, result, fs, cache>>

\* loadfile(filename_or_io, cache).
Loadfile ==
    \E src \in Sources, useCache \in BOOLEAN :
        /\ src.io => streams # "none"
        /\ \E o \in loadfile(src, useCache) :
            /\ last' = o.call
            /\ cache' = o.cache
            /\ streams' = IF src.io /\ o.call.touched THEN AfterRead(TRUE) ELSE streams
        /\ UNCHANGED <<obj, result, fs>>

-----------------------------------------------------------------------------
(* The environment: the file system, the caller's stream and the other     *)
(* users of the cache.                                                     *)

CanChange(n) == ~(n = StreamName /\ streams \in {"open", "consumed"})

WriteFile ==
    \E n \in Names, t \in FileTexts :
        /\ CanChange(n)
        /\ fs[n] # t
        /\ fs' = [fs EXCEPT ![n] = t]
        /\ UNCHANGED <<obj, result, streams, cache, last>>

DeleteFile ==
    \E n \in Names :
        /\ CanChange(n)
        /\ fs[n] # NoText
        /\ fs' = [fs EXCEPT ![n] = NoText]
        /\ UNCHANGED <<obj, result, streams, cache, last>>

\* The caller opens a stream on the file StreamName (io.open).
OpenStream ==
    /\ streams \in {"none", "closed"}
    /\ fs[StreamName] # NoText
    /\ streams' = "open"
    /\ UNCHANGED <<obj, result, fs, cache, last>>

\* The cache drops an entry (eviction, expiry).
CacheEvict ==
    \E k \in Names :
        /\ cache[<<k, _SECRET_NAMESPACE>>].present
        /\ cache' = [cache EXCEPT ![<<k, _SECRET_NAMESPACE>>] = CacheNone]
        /\ last' = CacheChanged
        /\ UNCHANGED <<obj, result, fs, streams>>

\* Another writer sets a key of the namespace.
CacheForeignSet ==
    \E k \in Names, m \in ForeignMappings :
        /\ cache[<<k, _SECRET_NAMESPACE>>] # CacheEntry(m)
        /\ cache' = [cache EXCEPT ![<<k, _SECRET_NAMESPACE>>] = CacheEntry(m)]
        /\ last' = CacheChanged
        /\ UNCHANGED <<obj, result, fs, streams>>

Init ==
    /\ obj = NoneDoc
    /\ result = NotRun
    /\ LoaderInit

Next ==
    \/ Load
    \/ Loads
    \/ LoadfileUncached
    \/ Loadfile
    \/ WriteFile
    \/ DeleteFile
    \/ OpenStream
    \/ CacheEvict
    \/ CacheForeignSet

Spec == Init /\ [][Next]_vars

-----------------------------------------------------------------------------
(* Vocabulary of the properties.  These definitions restate the terms of   *)
(* the specification (the five required fields, the placeholder marker,    *)
(* the five error kinds); they do not read the schema table.               *)

RequiredFields == {"client_id", "client_secret", "redirect_uris", "auth_uri", "token_uri"}

IsText(v) == v.t = "str"

StartsWithMarker(v) ==
    /\ v.t = "str"
    /\ Len(v.s) >= 2
    /\ v.s[1] = "["
    /\ v.s[2] = "["

\* The error kind of a result, read off the message of the exception.
KindOf(r) ==
    IF r.tag = "none" THEN "none"
    ELSE IF r.tag = "return" THEN "ok"
    ELSE IF r.exc # "InvalidClientSecretsError" THEN r.exc
    ELSE IF r.msg = "Invalid file format." THEN "MalformedDocument"
    ELSE IF r.msg = "Unknown client type: %s." THEN "UnknownClientType"
    ELSE IF r.msg = "Missing property \"%s\" in a client type of \"%s\"." THEN "MissingField"
    ELSE IF r.msg = "Property \"%s\" is not configured." THEN "PlaceholderNotConfigured"
    ELSE IF r.msg = "File not found: \"%s\"" THEN "FileNotFound"
    ELSE "other"

ErrorKinds ==
    {"MalformedDocument", "UnknownClientType", "MissingField",
     "PlaceholderNotConfigured", "FileNotFound"}

ValidatorRan == result.tag # "none"

\* obj is a JSON object whose only key is a client type of the schema table.
SingleKnownKey ==
    /\ obj.kind = "object"
    /\ Cardinality(DOMAIN obj.m) = 1
    /\ DOMAIN obj.m \subseteq {"web", "installed"}

TheKey == CHOOSE k \in DOMAIN obj.m : TRUE

TheInfo == obj.m[TheKey]

HasAllRequired ==
    /\ TheInfo.kind = "object"
    /\ RequiredFields \subseteq DOMAIN TheInfo.f

C5_AsStated ==
    (/\ ValidatorRan
     /\ SingleKnownKey
     /\ HasAllRequired
     /\ \/ StartsWithMarker(TheInfo.f["client_id"])
        \/ StartsWithMarker(TheInfo.f["client_secret"]))
    => KindOf(result) = "PlaceholderNotConfigured"

\* A companion of C5: when client_id is text, a document of a known type with
\* all required fields whose client_id or client_secret starts with '[[' fails
\* with PlaceholderNotConfigured.
C5_WithTextClientId ==
    (/\ ValidatorRan
     /\ SingleKnownKey
     /\ HasAllRequired
     /\ IsText(TheInfo.f["client_id"])
     /\ \/ StartsWithMarker(TheInfo.f["client_id"])
        \/ StartsWithMarker(TheInfo.f["client_secret"]))
    => KindOf(result) = "PlaceholderNotConfigured"

\* The kind of the earliest failing check of the validator's four checks, in
\* the order key count, client type, required fields, placeholder strings.
EarliestFailingCheck(o) ==
    IF o.kind # "object" \/ Cardinality(DOMAIN o.m) # 1 THEN "MalformedDocument"
    ELSE LET k == CHOOSE x \in DOMAIN o.m : TRUE
             i == o.m[k]
         IN  IF k \notin {"web", "installed"} THEN "UnknownClientType"
             ELSE IF ~(RequiredFields \subseteq DOMAIN i.f) THEN "MissingField"
             ELSE IF \/ StartsWithMarker(i.f["client_id"])
                     \/ StartsWithMarker(i.f["client_secret"])
             THEN "PlaceholderNotConfigured"
             ELSE "ok"

\* JSON null, or a JSON object all of whose values are JSON objects.
ObjectDocument(o) ==
    \/ o.kind = "null"
    \/ /\ o.kind = "object"
       /\ \A k \in DOMAIN o.m : o.m[k].kind = "object"

\* C8 as stated: for every document the outcome of the validator is the kind
\* of the earliest failing check (success when no check fails).
C8_AsStated ==
    (ValidatorRan /\ ObjectDocument(obj))
    => KindOf(result) = EarliestFailingCheck(obj)

\* A companion of C8: when client_id and client_secret are text wherever they
\* are present, the outcome is the kind of the earliest failing check.
C8_OrderOnTextValues ==
    (/\ ValidatorRan
     /\ ObjectDocument(obj)
     /\ \A k \in DOMAIN obj.m : \A x \in DOMAIN obj.m[k].f \cap {"client_id", "client_secret"} :
            IsText(obj.m[k].f[x]))
    => KindOf(result) = EarliestFailingCheck(obj)

-----------------------------------------------------------------------------
(* Properties of the loaders.                                              *)

LoadOps == {"load", "loads", "_loadfile", "loadfile"}

\* The last call was loadfile with a cache.
CachedCall(c) == c.op = "loadfile" /\ c.cached

\* The cache entry under a key of the module's namespace.
Stored(k) == cache[<<k, "oauth2client:secrets#ns">>]

\* The last call was loadfile with a cache, found no entry under key k and
\* returned a pair.
LoadedAndStored(c, k) ==
    /\ CachedCall(c)
    /\ c.key = k
    /\ ~c.got.present
    /\ c.res.tag = "return"

\* C2: after a loadfile with a cache that found no entry under the key and
\* succeeded, the cache holds {type: info} under the key, and the next
\* loadfile with that key and cache (the cache not having been changed by
\* another party) returns the same pair without opening or reading the source,
\* whatever has become of the file meanwhile.
C2_CacheRoundTrip ==
    [][\A k \in Names :
         LoadedAndStored(last, k) =>
           /\ Stored(k) = CacheEntry(last.res.ctype :> last.res.info)
           /\ (CachedCall(last') /\ last'.key = k /\ last' # last) =>
                 /\ last'.res = last.res
                 /\ ~last'.touched
                 /\ ~last'.ran]_vars

\* C2 witness: the second of two loads of b.json with the cache has returned
\* the stored pair although the file has been deleted since the first.
C2_Witness ==
    /\ CachedCall(last)
    /\ last.key = "b.json"
    /\ last.got = CacheEntry("installed" :> GoodInfo)
    /\ last.res = Return("installed", GoodInfo)
    /\ ~last.touched
    /\ fs["b.json"] = NoText

\* C3: on a cache hit with a non-empty mapping loadfile returns an entry of the
\* mapping as it is (the entry, when there is one only), without running the
\* validator, touching the source or writing the cache; and a validation or
\* I/O error is raised only when cache.get returned nothing.
C3_HitReturnsCachedUnvalidated ==
    CachedCall(last) =>
      /\ (last.got.present /\ DOMAIN last.got.m # {}) =>
            /\ last.res.tag = "return"
            /\ last.res.ctype \in DOMAIN last.got.m
            /\ last.res.info = last.got.m[last.res.ctype]
            /\ ~last.ran
            /\ ~last.touched
            /\ ~last.set
      /\ (last.res.tag = "raise" /\ last.res.exc \in {"InvalidClientSecretsError", "IOError"})
            => ~last.got.present

\* C3 witness: a hit has returned a cached client_info that lacks required
\* fields.
C3_Witness ==
    /\ CachedCall(last)
    /\ last.got = CacheEntry("web" :> MissingInfo)
    /\ last.res = Return("web", MissingInfo)

\* C6 as stated: every failure of a load operation is a validation error of
\* one of the five kinds, and text that json cannot parse gives
\* MalformedDocument.
C6_AsStated ==
    (last.op \in LoadOps /\ last.res.tag = "raise") =>
      /\ KindOf(last.res) \in ErrorKinds
      /\ last.text.syntax = "garbage" => KindOf(last.res) = "MalformedDocument"

C9_AsStated ==
    (CachedCall(last) /\ (~last.got.present \/ DOMAIN last.got.m = {})) =>
      /\ last.touched
      /\ last.res.tag = "return" =>
            /\ last.set
            /\ Stored(last.key) = CacheEntry(last.res.ctype :> last.res.info)

\* A companion of C9: when cache.get returns None loadfile calls the Loader
\* and, on success, stores the result under the key and returns the pair.
C9_MissOnNone ==
    (CachedCall(last) /\ ~last.got.present) =>
      /\ last.touched
      /\ last.res.tag = "return" =>
            /\ last.set
            /\ Stored(last.key) = CacheEntry(last.res.ctype :> last.res.info)

\* C10: when loadfile with a cache misses and the Loader fails, the Loader's
\* error reaches the caller unchanged, cache.set is not called and the cache
\* is as it was before the call; the key still has no entry afterwards.
C10_FailedMissLeavesCache ==
    [][(CachedCall(last') /\ ~last'.got.present /\ last'.res.tag = "raise" /\ last' # last) =>
         /\ last'.res = _loadfile(last'.src).res
         /\ ~last'.set
         /\ cache' = cache
         /\ ~cache'[<<last'.key, "oauth2client:secrets#ns">>].present]_vars

\* C10 witness: a load with the cache has missed and failed with FileNotFound,
\* and the key has no entry.
C10_Witness ==
    /\ CachedCall(last)
    /\ ~last.got.present
    /\ KindOf(last.res) = "FileNotFound"
    /\ last.res.args = <<last.key>>
    /\ ~Stored(last.key).present

====
